---- MODULE Spec2Model ----
(***************************************************************************)
(* ShipStation analytics: the CSV field normalizer (cleanData) and the     *)
(* metrics aggregator (calculateStoreMetrics, calculateTagMetrics).        *)
(*                                                                         *)
(* JavaScript values are records [t, n, s]: t is the typeof tag, n the     *)
(* number and s the string.  Strings are tuples of one-character strings,  *)
(* so trim, split, replace, toLowerCase and parseFloat are computed on the *)
(* characters.  Numbers are integers counting 1/Unit (Unit = 256): every   *)
(* such amount is exact in binary floating point, sums of them are exact,  *)
(* and toFixed(2) sees the exact value.  Values published by toFixed(2)    *)
(* are integers counting hundredths.                                       *)
(***************************************************************************)
EXTENDS Integers, Sequences, FiniteSets, TLC

VARIABLES
    objectProto,  \* enumerable properties added to Object.prototype
    headers,      \* the reader's headers: the keys of the first row read
    row,          \* the row the reader handled last
    data,         \* the record sequence built by the reader / the caller
    fn,           \* the aggregator function last called
    pc,           \* where that call stands
    i,            \* index of the next record of its loop
    metrics,      \* its storeMetrics / tagMetrics object
    argument,     \* the argument extractNumericValue was called with
    result,       \* what it returned: for argument, and for that result again
    timezone,     \* minutes the local time is ahead of UTC
    startDate,    \* the start date passed to filterDataByDateRange
    endDate,      \* the end date passed to it
    filtered,     \* the array it returned
    options,      \* the command line options and the date range of a run
    cliPc,        \* where the run of the command line action stands
    globalTotal,  \* global.totalAllStoresOrders
    storeMetrics, \* the action's constant storeMetrics
    tagMetrics,   \* the action's constant tagMetrics
    output        \* what the run has displayed and saved so far, in order

extractVars == <<argument, result>>
filterVars == <<timezone, startDate, endDate, filtered>>
cliVars == <<options, cliPc, globalTotal, storeMetrics, tagMetrics, output>>

vars == <<objectProto, headers, row, data, fn, pc, i, metrics,
          argument, result, timezone, startDate, endDate, filtered,
          options, cliPc, globalTotal, storeMetrics, tagMetrics, output>>

\* ------------------------------------------------------------------ bounds

MaxRecords == 2

\* ------------------------------------------------------------------ values

Unit == 2 ^ 8

Undefined == [t |-> "undefined", n |-> 0, s |-> <<>>]
Null == [t |-> "null", n |-> 0, s |-> <<>>]
Num(k) == [t |-> "number", n |-> k, s |-> <<>>]
Str(cs) == [t |-> "string", n |-> 0, s |-> cs]
Bool(b) == [t |-> "boolean", n |-> IF b THEN 1 ELSE 0, s |-> <<>>]
AnObject == [t |-> "object", n |-> 0, s |-> <<>>]

\* ToBoolean: undefined, null, 0 and "" are falsy
Truthy(v) ==
    CASE v.t = "undefined" -> FALSE
      [] v.t = "null" -> FALSE
      [] v.t = "number" -> v.n # 0
      [] v.t = "string" -> v.s # <<>>
      [] v.t = "boolean" -> v.n # 0
      [] OTHER -> TRUE

\* ----------------------------------------------------------------- strings

Digits == <<"0", "1", "2", "3", "4", "5", "6", "7", "8", "9">>
UpperCase == <<"A", "B", "C", "D", "E", "F", "G", "H", "I", "J", "K", "L", "M", "N", "O", "P", "Q", "R", "S", "T", "U", "V", "W", "X", "Y", "Z">>
LowerCase == <<"a", "b", "c", "d", "e", "f", "g", "h", "i", "j", "k", "l", "m", "n", "o", "p", "q", "r", "s", "t", "u", "v", "w", "x", "y", "z">>

IndexOf(c, seq) == CHOOSE j \in 1..Len(seq) : seq[j] = c
IsIn(c, seq) == \E j \in 1..Len(seq) : seq[j] = c
IsDigit(c) == IsIn(c, Digits)
DigitVal(c) == IndexOf(c, Digits) - 1
IsSpace(c) == c = " "

RECURSIVE TrimStart(_)
TrimStart(s) ==
    IF s # <<>> /\ IsSpace(Head(s)) THEN TrimStart(Tail(s)) ELSE s

RECURSIVE TrimEnd(_)
TrimEnd(s) ==
    IF s # <<>> /\ IsSpace(s[Len(s)]) THEN TrimEnd(SubSeq(s, 1, Len(s) - 1)) ELSE s

\* String.prototype.trim
Trim(s) == TrimEnd(TrimStart(s))

LowerChar(c) == IF IsIn(c, UpperCase) THEN LowerCase[IndexOf(c, UpperCase)] ELSE c

\* String.prototype.toLowerCase
ToLowerCase(s) == [j \in 1..Len(s) |-> LowerChar(s[j])]

\* String.prototype.includes
Includes(s, sub) ==
    \E j \in 0..(Len(s) - Len(sub)) : SubSeq(s, j + 1, j + Len(sub)) = sub

\* String.prototype.split(',')
RECURSIVE Split(_)
Split(s) ==
    IF \A j \in 1..Len(s) : s[j] # ","
    THEN <<s>>
    ELSE LET p == CHOOSE j \in 1..Len(s) :
                      s[j] = "," /\ \A m \in 1..(j - 1) : s[m] # ","
         IN  <<SubSeq(s, 1, p - 1)>> \o Split(SubSeq(s, p + 1, Len(s)))

\* the longest prefix of s made of digits
RECURSIVE DigitPrefix(_)
DigitPrefix(s) ==
    IF s # <<>> /\ IsDigit(Head(s)) THEN <<Head(s)>> \o DigitPrefix(Tail(s)) ELSE <<>>

RECURSIVE DigitsValue(_)
DigitsValue(ds) ==
    IF ds = <<>> THEN 0
    ELSE 10 * DigitsValue(SubSeq(ds, 1, Len(ds) - 1)) + DigitVal(ds[Len(ds)])

RECURSIVE Pow10(_)
Pow10(e) == IF e = 0 THEN 1 ELSE 10 * Pow10(e - 1)

\* value.replace(/[^0-9.-]+/g, ''): keeps digits, '.' and '-'
StripNonNumeric(s) == SelectSeq(s, LAMBDA c : IsDigit(c) \/ c = "." \/ c = "-")

\* the numbers that are not finite, kept apart from every finite amount
Infinity == 2 ^ 30
NaN == 2 ^ 30 + 1

\* parseFloat on a string of digits, '.' and '-': an optional '-', digits,
\* an optional '.' and digits; NaN when no digit follows the sign.  The
\* result counts 1/Unit (the inputs used have fractions that are exact).
ParseFloat(s) ==
    LET t == TrimStart(s)
        neg == t # <<>> /\ Head(t) = "-"
        u == IF neg THEN Tail(t) ELSE t
        ip == DigitPrefix(u)
        r == SubSeq(u, Len(ip) + 1, Len(u))
        fp == IF r # <<>> /\ Head(r) = "." THEN DigitPrefix(Tail(r)) ELSE <<>>
        mag == DigitsValue(ip) * Unit + (DigitsValue(fp) * Unit) \div Pow10(Len(fp))
    IN  IF ip = <<>> /\ fp = <<>>
        THEN [nan |-> TRUE, n |-> 0]
        ELSE [nan |-> FALSE, n |-> IF neg THEN -mag ELSE mag]

\* variant of ParseNumeric: the parse without its "|| 0"
ParseNumericNoDefault(s) ==
    LET p == ParseFloat(StripNonNumeric(s)) IN IF p.nan THEN NaN ELSE p.n

\* parseFloat(value.replace(/[^0-9.-]+/g, '')) || 0
ParseNumeric(s) ==
    LET p == ParseFloat(StripNonNumeric(s)) IN IF p.nan THEN 0 ELSE p.n

\* Number.prototype.toString as a property key, for the amounts of the model
RECURSIVE NatDigits(_)
NatDigits(k) ==
    IF k < 10 THEN <<Digits[k + 1]>> ELSE NatDigits(k \div 10) \o <<Digits[(k % 10) + 1]>>

RECURSIVE FracDigits(_)
FracDigits(f) ==
    IF f = 0 THEN <<>>
    ELSE <<Digits[((f * 10) \div Unit) + 1]>> \o FracDigits((f * 10) % Unit)

NumberToString(k) ==
    LET a == IF k < 0 THEN -k ELSE k
        body == NatDigits(a \div Unit)
                    \o (IF a % Unit = 0 THEN <<>> ELSE <<".">> \o FracDigits(a % Unit))
    IN  IF k < 0 THEN <<"-">> \o body ELSE body

\* ToPropertyKey of a value used as obj[value]
ToPropertyKey(v) ==
    CASE v.t = "string" -> v.s
      [] v.t = "number" -> NumberToString(v.n)
      [] v.t = "undefined" -> <<"u", "n", "d", "e", "f", "i", "n", "e", "d">>  \* "undefined"
      [] v.t = "null" -> <<"n", "u", "l", "l">>  \* "null"

\* ----------------------------------------------------------------- numbers

Abs(a) == IF a < 0 THEN -a ELSE a

\* variant of RoundHalfAway: of two equally near integers, the greater
RoundHalfUp(a, b) == (2 * a + b) \div (2 * b)

\* the integer nearest to a / b (b > 0); of two equally near, the one of
\* larger magnitude, as Number.prototype.toFixed picks it
RoundHalfAway(a, b) ==
    LET q == (2 * Abs(a) + b) \div (2 * b) IN IF a < 0 THEN -q ELSE q

IsFinite(x) == Abs(x) < Infinity

\* a / b for b any integer, to the nearest integer as toFixed rounds it;
\* x / 0 is NaN for x = 0 and an infinity otherwise
DivideToFixed(a, b) ==
    CASE b > 0 -> RoundHalfAway(a, b)
      [] b < 0 -> RoundHalfAway(-a, -b)
      [] a = 0 -> NaN
      [] a > 0 -> Infinity
      [] OTHER -> -Infinity

\* parseFloat(x.toFixed(2)) for x = a / b counted in 1/Unit: hundredths
ToFixed2(a, b) == DivideToFixed(100 * a, Unit * b)

\* parseFloat(((p / d) * 100).toFixed(2)): hundredths of a percent
PercentToFixed2(p, d) == DivideToFixed(10000 * p, d)

\* ----------------------------------------------------------------- objects

\* obj[key] of a record (an object used as a string-keyed map of values)
Get(obj, key) == IF key \in DOMAIN obj THEN obj[key] ELSE Undefined

kStore == <<"S", "t", "o", "r", "e">>  \* "Store"
kRate == <<"R", "a", "t", "e">>  \* "Rate"
kOrderTotal == <<"O", "r", "d", "e", "r", " ", "T", "o", "t", "a", "l">>  \* "Order Total"
kOrderTotalNoSpace == <<"O", "r", "d", "e", "r", "T", "o", "t", "a", "l">>  \* "OrderTotal"
kShipping == <<"S", "h", "i", "p", "p", "i", "n", "g">>  \* "Shipping"
kShippingPaid == <<"S", "h", "i", "p", "p", "i", "n", "g", " ", "P", "a", "i", "d">>  \* "Shipping Paid"
kTags == <<"T", "a", "g", "s">>  \* "Tags"
kUnknown == <<"U", "n", "k", "n", "o", "w", "n">>  \* "Unknown"
kProto == <<"_", "_", "p", "r", "o", "t", "o", "_", "_">>  \* "__proto__"

\* members every object inherits from Object.prototype: reading obj[name]
\* gives a function, which is truthy, and they are not enumerable
ObjectPrototypeMethods ==
    {<<"c", "o", "n", "s", "t", "r", "u", "c", "t", "o", "r">>,  \* "constructor"
     <<"t", "o", "S", "t", "r", "i", "n", "g">>,  \* "toString"
     <<"v", "a", "l", "u", "e", "O", "f">>,  \* "valueOf"
     <<"h", "a", "s", "O", "w", "n", "P", "r", "o", "p", "e", "r", "t", "y">>}  \* "hasOwnProperty"

\* !obj[key] is false: an own entry, an inherited method, or __proto__
\* (Object.prototype itself); a property added to Object.prototype by an
\* earlier += holds NaN, which is falsy
HasTruthy(obj, key) ==
    key \in DOMAIN obj \/ key \in ObjectPrototypeMethods \/ key = kProto

\* ------------------------------------------------------- extractNumericValue

ExtractNumericValue(v) ==
    CASE v.t = "undefined" -> 0
      [] v.t = "null" -> 0
      [] v.t = "number" -> v.n
      [] v.t = "string" -> ParseNumeric(v.s)
      [] OTHER -> 0

\* a || b || 0 on numbers
OrElse(a, b) == IF a # 0 THEN a ELSE IF b # 0 THEN b ELSE 0

\* ----------------------------------------------------- calculateStoreMetrics

ResolveStore(order) ==
    IF Truthy(Get(order, kStore)) THEN Get(order, kStore) ELSE Str(kUnknown)

RateOf(order) == ExtractNumericValue(Get(order, kRate))

OrderTotalOf(order) ==
    OrElse(ExtractNumericValue(Get(order, kOrderTotal)),
           ExtractNumericValue(Get(order, kOrderTotalNoSpace)))

ShippingPaidOf(order) ==
    OrElse(ExtractNumericValue(Get(order, kShipping)),
           ExtractNumericValue(Get(order, kShippingPaid)))

ZeroStoreEntry ==
    [count |-> 0, totalRate |-> 0, averageRate |-> 0,
     totalOrderValue |-> 0, averageOrderValue |-> 0,
     totalShippingPaid |-> 0, averageShippingPaid |-> 0,
     shippingProfit |-> 0, shippingProfitMargin |-> 0,
     netRevenue |-> 0, netRevenueMargin |-> 0]

\* variant of StoreUpdate: the rate replaces the total instead of adding to it
StoreUpdateLastRate(e, rate, orderTotal, shippingPaid) ==
    [e EXCEPT !.count = @ + 1,
              !.totalRate = rate,
              !.totalOrderValue = @ + orderTotal,
              !.totalShippingPaid = @ + shippingPaid]

StoreUpdate(e, rate, orderTotal, shippingPaid) ==
    [e EXCEPT !.count = @ + 1,
              !.totalRate = @ + rate,
              !.totalOrderValue = @ + orderTotal,
              !.totalShippingPaid = @ + shippingPaid]

StoreAccumulatorNames ==
    {<<"c", "o", "u", "n", "t">>,                                    \* "count"
     <<"t", "o", "t", "a", "l", "R", "a", "t", "e">>,                \* "totalRate"
     <<"t", "o", "t", "a", "l", "O", "r", "d", "e", "r",
       "V", "a", "l", "u", "e">>,                                    \* "totalOrderValue"
     <<"t", "o", "t", "a", "l", "S", "h", "i", "p", "p", "i", "n", "g",
       "P", "a", "i", "d">>}                                         \* "totalShippingPaid"

\* one iteration of the loop over the orders: the map and Object.prototype
\* after it.  storeMetrics[store] of an inherited method is the built-in
\* function, whose properties the += set; of __proto__ it is
\* Object.prototype, which the += give enumerable NaN properties.
StoreIteration(sm, proto, order) ==
    LET key == ToPropertyKey(ResolveStore(order))
        init == IF HasTruthy(sm, key) THEN sm ELSE sm @@ (key :> ZeroStoreEntry)
    IN  CASE key \in DOMAIN init ->
                [m |-> [init EXCEPT ![key] =
                            StoreUpdate(@, RateOf(order), OrderTotalOf(order),
                                        ShippingPaidOf(order))],
                 proto |-> proto]
          [] key = kProto ->
                [m |-> init, proto |-> proto \cup StoreAccumulatorNames]
          [] OTHER -> [m |-> init, proto |-> proto]

\* variant of ShippingProfit: the operands exchanged
ShippingProfitReversed(e) == e.totalRate - e.totalShippingPaid

\* metrics.shippingProfit = metrics.totalShippingPaid - metrics.totalRate
ShippingProfit(e) == e.totalShippingPaid - e.totalRate

\* metrics.netRevenue = metrics.totalOrderValue - metrics.totalRate
NetRevenue(e) == e.totalOrderValue - e.totalRate

\* variant of ShippingProfitMargin: the division without its guard
ShippingProfitMarginUnguarded(e) ==
    PercentToFixed2(ShippingProfit(e), e.totalShippingPaid)

\* variant of ShippingProfitMargin: the profit as a share of the rate paid
ShippingProfitMarginOverRate(e) ==
    IF e.totalShippingPaid > 0 THEN PercentToFixed2(ShippingProfit(e), e.totalRate) ELSE 0

\* the shipping profit margin, a percentage with two decimals
ShippingProfitMargin(e) ==
    IF e.totalShippingPaid > 0
    THEN PercentToFixed2(ShippingProfit(e), e.totalShippingPaid) ELSE 0

\* the net revenue margin, a percentage with two decimals
NetRevenueMargin(e) ==
    IF e.totalOrderValue > 0
    THEN PercentToFixed2(NetRevenue(e), e.totalOrderValue) ELSE 0

\* the body of the second loop for one store entry; the totals come in
\* counted in 1/Unit and every field goes out in hundredths
FinalizeStoreEntry(e) ==
    [count |-> e.count,
     totalRate |-> ToFixed2(e.totalRate, 1),
     averageRate |-> IF e.count > 0 THEN ToFixed2(e.totalRate, e.count) ELSE 0,
     totalOrderValue |-> ToFixed2(e.totalOrderValue, 1),
     averageOrderValue |->
         IF e.count > 0 THEN ToFixed2(e.totalOrderValue, e.count) ELSE 0,
     totalShippingPaid |-> ToFixed2(e.totalShippingPaid, 1),
     averageShippingPaid |->
         IF e.count > 0 THEN ToFixed2(e.totalShippingPaid, e.count) ELSE 0,
     shippingProfit |-> ToFixed2(ShippingProfit(e), 1),
     shippingProfitMargin |-> ShippingProfitMargin(e),
     netRevenue |-> ToFixed2(NetRevenue(e), 1),
     netRevenueMargin |-> NetRevenueMargin(e)]

\* for (const k in obj) also visits the enumerable properties Object.prototype
\* has been given; obj[k] is then NaN and, the module being strict code,
\* assigning a property of it throws a TypeError
ForInThrows(obj, proto) == proto \ DOMAIN obj # {}

\* ------------------------------------------------------- calculateTagMetrics

ZeroTagEntry == [count |-> 0, totalRate |-> 0, averageRate |-> 0]

TagUpdate(e, rate) == [e EXCEPT !.count = @ + 1, !.totalRate = @ + rate]

TagAccumulatorNames ==
    {<<"c", "o", "u", "n", "t">>,                                    \* "count"
     <<"t", "o", "t", "a", "l", "R", "a", "t", "e">>}                \* "totalRate"

\* the record is skipped: !order.Tags || order.Tags.trim() === ''
\* (evaluated only where TagsThrows is false)
TagsSkipped(order) ==
    LET v == Get(order, kTags) IN ~Truthy(v) \/ Trim(v.s) = <<>>

\* order.Tags.trim is not a function: a truthy Tags that is no string
TagsThrows(order) ==
    LET v == Get(order, kTags) IN Truthy(v) /\ v.t # "string"

\* variant of TagsOf: the pieces are used as split, not trimmed
TagsOfUntrimmed(order) ==
    SelectSeq(Split(Get(order, kTags).s), LAMBDA tag : tag # <<>>)

\* order.Tags.split(',').map((tag) => tag.trim()).filter((tag) => tag)
TagsOf(order) ==
    LET pieces == Split(Get(order, kTags).s)
        trimmed == [j \in 1..Len(pieces) |-> Trim(pieces[j])]
    IN  SelectSeq(trimmed, LAMBDA tag : tag # <<>>)

\* the body of the loop over one record's tags, for one tag
TagStep(st, tag, rate) ==
    LET init == IF HasTruthy(st.m, tag) THEN st.m ELSE st.m @@ (tag :> ZeroTagEntry)
    IN  CASE tag \in DOMAIN init ->
                [m |-> [init EXCEPT ![tag] = TagUpdate(@, rate)], proto |-> st.proto]
          [] tag = kProto ->
                [m |-> init, proto |-> st.proto \cup TagAccumulatorNames]
          [] OTHER -> [m |-> init, proto |-> st.proto]

RECURSIVE TagLoop(_, _, _)
TagLoop(st, tags, rate) ==
    IF tags = <<>> THEN st ELSE TagLoop(TagStep(st, Head(tags), rate), Tail(tags), rate)

\* variant of TagIteration: no record is skipped and no empty piece dropped
TagIterationUnfiltered(tm, proto, order) ==
    LET pieces == Split(Get(order, kTags).s)
    IN  TagLoop([m |-> tm, proto |-> proto],
                [j \in 1..Len(pieces) |-> Trim(pieces[j])], RateOf(order))

\* one iteration of the loop over the orders (for an order that does not throw)
TagIteration(tm, proto, order) ==
    IF TagsSkipped(order)
    THEN [m |-> tm, proto |-> proto]
    ELSE TagLoop([m |-> tm, proto |-> proto], TagsOf(order), RateOf(order))

FinalizeTagEntry(e) ==
    [count |-> e.count,
     totalRate |-> ToFixed2(e.totalRate, 1),
     averageRate |-> IF e.count > 0 THEN ToFixed2(e.totalRate, e.count) ELSE 0]

\* ------------------------------------------------------------------ cleanData

NumericFields ==
    <<<<"r", "a", "t", "e">>,                        \* "rate"
      <<"c", "o", "s", "t">>,                        \* "cost"
      <<"p", "r", "i", "c", "e">>,                   \* "price"
      <<"t", "o", "t", "a", "l">>,                   \* "total"
      <<"a", "m", "o", "u", "n", "t">>,              \* "amount"
      <<"s", "h", "i", "p", "p", "i", "n", "g">>,    \* "shipping"
      <<"p", "a", "i", "d">>,                        \* "paid"
      <<"v", "a", "l", "u", "e">>,                   \* "value"
      <<"w", "e", "i", "g", "h", "t">>,              \* "weight"
      <<"q", "u", "a", "n", "t", "i", "t", "y">>,    \* "quantity"
      <<"q", "t", "y">>,                             \* "qty"
      <<"p", "o", "s", "t", "a", "g", "e">>>>        \* "postage"

\* /^\s*\$?\s*\d+(\.\d+)?\s*$/.test(s)
LooksLikeCurrency(s) ==
    LET a == TrimStart(s)
        b == TrimStart(IF a # <<>> /\ Head(a) = "$" THEN Tail(a) ELSE a)
        ip == DigitPrefix(b)
        r == SubSeq(b, Len(ip) + 1, Len(b))
        fp == IF r # <<>> /\ Head(r) = "." THEN DigitPrefix(Tail(r)) ELSE <<>>
        rest == IF fp # <<>> THEN SubSeq(r, Len(fp) + 2, Len(r)) ELSE r
    IN  ip # <<>> /\ TrimStart(rest) = <<>>

IsLikelyNumeric(fieldName, value) ==
    \/ \E j \in 1..Len(NumericFields) : Includes(ToLowerCase(fieldName), NumericFields[j])
    \/ LooksLikeCurrency(ToPropertyKey(value))

\* variant of CoerceThrows: the number is taken from value.match(...)[0],
\* which throws when the value holds no digit, '.' or '-'
CoerceThrowsNoMatch(cleanKey, value) ==
    IsLikelyNumeric(cleanKey, value)
        /\ (value.t # "string" \/ StripNonNumeric(value.s) = <<>>)

\* value.replace is not a function: a numeric-looking field whose value is
\* no string
CoerceThrows(cleanKey, value) == IsLikelyNumeric(cleanKey, value) /\ value.t # "string"

\* the value stored under cleanKey by the copying loop
Coerce(cleanKey, value) ==
    IF IsLikelyNumeric(cleanKey, value) THEN Num(ParseNumeric(value.s)) ELSE value

\* obj[key] = value; assigning a primitive to __proto__ changes nothing
Put(obj, key, value) ==
    IF key = kProto THEN obj
    ELSE [k \in DOMAIN obj \cup {key} |-> IF k = key THEN value ELSE obj[k]]

EmptyObject == [k \in {} |-> Undefined]

FieldMappings ==
    <<[field |-> kStore,
       variations |-> <<<<"S", "t", "o", "r", "e">>,  \* "Store"
                        <<"M", "a", "r", "k", "e", "t", "p", "l", "a", "c", "e">>,  \* "Marketplace"
                        <<"C", "h", "a", "n", "n", "e", "l">>,  \* "Channel"
                        <<"S", "o", "u", "r", "c", "e">>,  \* "Source"
                        <<"P", "l", "a", "t", "f", "o", "r", "m">>>>],  \* "Platform"
      [field |-> kRate,
       variations |-> <<<<"R", "a", "t", "e">>,  \* "Rate"
                        <<"S", "h", "i", "p", "p", "i", "n", "g", "R", "a", "t", "e">>,  \* "ShippingRate"
                        <<"S", "h", "i", "p", "p", "i", "n", "g", " ", "R", "a", "t", "e">>,  \* "Shipping Rate"
                        <<"C", "o", "s", "t">>,  \* "Cost"
                        <<"S", "h", "i", "p", "p", "i", "n", "g", " ", "C", "o", "s", "t">>,  \* "Shipping Cost"
                        <<"P", "o", "s", "t", "a", "g", "e", " ", "C", "o", "s", "t">>,  \* "Postage Cost"
                        <<"P", "o", "s", "t", "a", "g", "e">>>>],  \* "Postage"
      [field |-> kOrderTotal,
       variations |-> <<<<"O", "r", "d", "e", "r", " ", "T", "o", "t", "a", "l">>,  \* "Order Total"
                        <<"O", "r", "d", "e", "r", "T", "o", "t", "a", "l">>,  \* "OrderTotal"
                        <<"T", "o", "t", "a", "l">>,  \* "Total"
                        <<"O", "r", "d", "e", "r", " ", "A", "m", "o", "u", "n", "t">>,  \* "Order Amount"
                        <<"O", "r", "d", "e", "r", "A", "m", "o", "u", "n", "t">>,  \* "OrderAmount"
                        <<"O", "r", "d", "e", "r", " ", "V", "a", "l", "u", "e">>,  \* "Order Value"
                        <<"O", "r", "d", "e", "r", "V", "a", "l", "u", "e">>>>],  \* "OrderValue"
      [field |-> kShippingPaid,
       variations |-> <<<<"S", "h", "i", "p", "p", "i", "n", "g">>,  \* "Shipping"
                        <<"S", "h", "i", "p", "p", "i", "n", "g", " ", "P", "a", "i", "d">>,  \* "Shipping Paid"
                        <<"S", "h", "i", "p", "p", "i", "n", "g", "P", "a", "i", "d">>,  \* "ShippingPaid"
                        <<"C", "u", "s", "t", "o", "m", "e", "r", " ", "S", "h", "i", "p", "p", "i", "n", "g">>,  \* "Customer Shipping"
                        <<"C", "u", "s", "t", "o", "m", "e", "r", "S", "h", "i", "p", "p", "i", "n", "g">>,  \* "CustomerShipping"
                        <<"S", "h", "i", "p", "p", "i", "n", "g", " ", "C", "h", "a", "r", "g", "e">>>>],  \* "Shipping Charge"
      [field |-> kTags,
       variations |-> <<<<"T", "a", "g", "s">>,  \* "Tags"
                        <<"T", "a", "g">>,  \* "Tag"
                        <<"L", "a", "b", "e", "l", "s">>,  \* "Labels"
                        <<"L", "a", "b", "e", "l">>,  \* "Label"
                        <<"C", "a", "t", "e", "g", "o", "r", "i", "e", "s">>,  \* "Categories"
                        <<"C", "a", "t", "e", "g", "o", "r", "y">>>>]>>  \* "Category"

\* variant of CopyProperties: the key is used as it comes, not trimmed
RECURSIVE CopyPropertiesUntrimmed(_, _)
CopyPropertiesUntrimmed(cleaned, entries) ==
    IF entries = <<>> THEN cleaned
    ELSE LET key == Head(entries).key
         IN  CopyPropertiesUntrimmed(Put(cleaned, key, Coerce(key, Head(entries).value)),
                                     Tail(entries))

\* the loop over Object.entries(data), the sequence of [key, value]
RECURSIVE CopyProperties(_, _)
CopyProperties(cleaned, entries) ==
    IF entries = <<>> THEN cleaned
    ELSE LET cleanKey == Trim(Head(entries).key)
         IN  CopyProperties(Put(cleaned, cleanKey, Coerce(cleanKey, Head(entries).value)),
                            Tail(entries))

\* the first variation present in cleaned, or <<>> when there is none
RECURSIVE FirstVariation(_, _)
FirstVariation(cleaned, variations) ==
    IF variations = <<>> THEN <<>>
    ELSE IF Get(cleaned, Head(variations)) # Undefined THEN <<Head(variations)>>
    ELSE FirstVariation(cleaned, Tail(variations))

\* the first loop over fieldMappings, from mapping j on
RECURSIVE ResolveExact(_, _)
ResolveExact(cleaned, j) ==
    IF j > Len(FieldMappings) THEN cleaned
    ELSE LET fm == FieldMappings[j]
             hit == IF Truthy(Get(cleaned, fm.field)) THEN <<>>
                    ELSE FirstVariation(cleaned, fm.variations)
         IN  ResolveExact(IF hit = <<>> THEN cleaned
                          ELSE Put(cleaned, fm.field, cleaned[hit[1]]), j + 1)

\* variations.some((v) => header.toLowerCase() === v.toLowerCase())
MatchesIgnoringCase(header, variations) ==
    \E j \in 1..Len(variations) : ToLowerCase(header) = ToLowerCase(variations[j])

RECURSIVE FirstHeader(_, _)
FirstHeader(hdrs, variations) ==
    IF hdrs = <<>> THEN <<>>
    ELSE IF MatchesIgnoringCase(Head(hdrs), variations) THEN <<Head(hdrs)>>
    ELSE FirstHeader(Tail(hdrs), variations)

\* the second loop over fieldMappings, from mapping j on
RECURSIVE ResolveIgnoringCase(_, _, _)
ResolveIgnoringCase(cleaned, hdrs, j) ==
    IF j > Len(FieldMappings) THEN cleaned
    ELSE LET fm == FieldMappings[j]
             hit == IF Truthy(Get(cleaned, fm.field)) THEN <<>>
                    ELSE FirstHeader(hdrs, fm.variations)
         IN  ResolveIgnoringCase(
                 IF hit = <<>> THEN cleaned
                 ELSE Put(cleaned, fm.field, Get(cleaned, hit[1])), hdrs, j + 1)

\* cleanData throws: some value.replace is called on a value that is no string
CleanDataThrows(entries) ==
    \E j \in 1..Len(entries) : CoerceThrows(Trim(entries[j].key), entries[j].value)

CleanData(entries, hdrs) ==
    ResolveIgnoringCase(ResolveExact(CopyProperties(EmptyObject, entries), 1), hdrs, 1)

\* the first loop of calculateStoreMetrics over a whole record sequence
RECURSIVE StoreLoop(_, _)
StoreLoop(acc, orders) ==
    IF orders = <<>> THEN acc
    ELSE StoreLoop(StoreIteration(acc.m, acc.proto, Head(orders)), Tail(orders))

\* a call of calculateStoreMetrics(orders) made with Object.prototype
\* holding proto: whether it throws, and the map it returns
StoreCall(orders, proto) ==
    LET acc == StoreLoop([m |-> EmptyObject, proto |-> proto], orders)
    IN  IF ForInThrows(acc.m, acc.proto)
        THEN [thrown |-> TRUE, map |-> EmptyObject]
        ELSE [thrown |-> FALSE,
              map |-> [k \in DOMAIN acc.m |-> FinalizeStoreEntry(acc.m[k])]]

\* the first loop of calculateTagMetrics over a whole record sequence
RECURSIVE TagRecords(_, _)
TagRecords(acc, orders) ==
    IF orders = <<>> THEN acc
    ELSE TagRecords(TagIteration(acc.m, acc.proto, Head(orders)), Tail(orders))

\* a call of calculateTagMetrics(orders) likewise
TagCall(orders, proto) ==
    LET acc == TagRecords([m |-> EmptyObject, proto |-> proto], orders)
    IN  IF (\E j \in 1..Len(orders) : TagsThrows(orders[j])) \/ ForInThrows(acc.m, acc.proto)
        THEN [thrown |-> TRUE, map |-> EmptyObject]
        ELSE [thrown |-> FALSE,
              map |-> [k \in DOMAIN acc.m |-> FinalizeTagEntry(acc.m[k])]]

\* -------------------------------------------------------------------- inputs

Cell(key, value) == [key |-> key, value |-> Str(value)]

\* rows as csv-parser hands them over: string keys, string values
StandardRow(store, rate, orderTotal, shippingPaid, tags) ==
    <<Cell(kStore, store), Cell(kRate, rate), Cell(kOrderTotal, orderTotal),
      Cell(kShippingPaid, shippingPaid), Cell(kTags, tags)>>

AliasRow(store, cost, shippingCost, tag) ==
    <<Cell(<<"s", "t", "o", "r", "e">>, store),                     \* "store"
      Cell(<<"C", "o", "s", "t">>, cost),                           \* "Cost"
      Cell(<<"S", "h", "i", "p", "p", "i", "n", "g", " ",
             "C", "o", "s", "t">>, shippingCost),                   \* "Shipping Cost"
      Cell(<<"T", "A", "G">>, tag)>>                                \* "TAG"

\* a line with fewer cells than the header line: the first keys only
ShortRow(store, rate) == <<Cell(kStore, store), Cell(kRate, rate)>>

\* a file whose header line names two columns
TwoColumns(header1, value1, header2, value2) ==
    <<Cell(header1, value1), Cell(header2, value2)>>

kCost == <<"C", "o", "s", "t">>  \* "Cost"
kShippingCost == <<"S", "h", "i", "p", "p", "i", "n", "g", " ", "C", "o", "s", "t">>  \* "Shipping Cost"
kMarketplace == <<"M", "a", "r", "k", "e", "t", "p", "l", "a", "c", "e">>  \* "Marketplace"

RawRows ==
    {StandardRow(<<"X">>,
                 <<"$", "5", ".", "0", "0">>,                     \* "$5.00"
                 <<"$", "5", "0", ".", "0", "0">>,                \* "$50.00"
                 <<"$", "7", ".", "0", "0">>,                     \* "$7.00"
                 <<"G", "i", "v", "e", "a", "w", "a", "y", "s">>), \* "Giveaways"
     StandardRow(<<"X">>, <<"3">>, <<"3", "0">>, <<"3">>, <<>>),
     StandardRow(<<"7">>, <<>>,
                 <<"N", "/", "A">>,                               \* "N/A"
                 <<>>,
                 <<"1", "2", "3">>),                              \* "123"
     AliasRow(<<"A">>,
              <<"1", ".", "5">>,                                  \* "1.5"
              <<"2">>,
              <<"X", ",", "X">>),                                 \* "X,X"
     ShortRow(<<"X">>, <<"2">>),
     TwoColumns(kShippingCost, <<"2">>, kCost, <<"3">>),
     TwoColumns(kShippingCost, <<"2">>, kCost, <<"0">>),
     TwoColumns(kCost, <<"5">>, kRate, <<"0">>),
     TwoColumns(kMarketplace, <<"M">>, kStore, <<>>),
     TwoColumns(kShipping, <<"1">>, kShippingPaid, <<"0">>),
     TwoColumns(<<"s", "h", "i", "p", "p", "i", "n", "g", " ", "c", "o", "s", "t">>, <<"2">>,                       \* "shipping cost"
                <<"c", "o", "s", "t">>, <<"3">>),                               \* "cost"
     TwoColumns(<<"c", "o", "s", "t">>, <<"3">>,                                \* "cost"
                <<"s", "h", "i", "p", "p", "i", "n", "g", " ", "c", "o", "s", "t">>, <<"2">>),                      \* "shipping cost"
     TwoColumns(<<" ", "s", "t", "o", "r", "e">>, <<"A">>,                              \* " store"
                <<"R", "A", "T", "E", " ">>, <<"2">>)}                              \* "RATE "

Keys(entries) == [j \in 1..Len(entries) |-> entries[j].key]

Obj1(k1, v1) == (k1 :> v1)
Obj2(k1, v1, k2, v2) == (k1 :> v1) @@ (k2 :> v2)
Obj3(k1, v1, k2, v2, k3, v3) == Obj2(k1, v1, k2, v2) @@ (k3 :> v3)
Obj4(k1, v1, k2, v2, k3, v3, k4, v4) == Obj3(k1, v1, k2, v2, k3, v3) @@ (k4 :> v4)
Obj5(k1, v1, k2, v2, k3, v3, k4, v4, k5, v5) ==
    Obj4(k1, v1, k2, v2, k3, v3, k4, v4) @@ (k5 :> v5)

\* records a caller of the exported aggregator functions passes directly
\* (amounts in 1/Unit: 384 is 1.5, 32 is 0.125, 1 is 0.00390625)
DirectRecords ==
    {Obj5(kStore, Str(<<"A">>), kRate, Num(384), kOrderTotal, Num(2560),
          kShippingPaid, Num(512),
          kTags, Str(<<"X", ",", " ", "Y", ",", " ", "X">>)),         \* "X, Y, X"
     Obj5(kStore, Str(<<"A">>),
          kRate, Str(<<"$", "1", ".", "2", "5">>),                    \* "$1.25"
          kShippingPaid, Num(768),
          kShipping, Num(256), kOrderTotalNoSpace, Num(1280)),
     Obj3(kStore, Str(<<"c", "o", "n", "s", "t", "r", "u", "c", "t", "o", "r">>),
          kRate, Num(256),
          kTags, Str(<<"c", "o", "n", "s", "t", "r", "u", "c", "t", "o", "r">>)),
                                                                      \* "constructor"
     Obj3(kStore, Str(kProto), kRate, Num(256), kTags, Str(kProto)),
     Obj3(kRate, Num(32), kShippingPaid, Num(1),
          kTags, Str(<<" ", ",", " ">>)),                             \* " , "
     Obj5(kStore, Str(<<"B">>), kRate, Num(64), kShippingPaid, Num(32),
          kOrderTotal, Num(-256), kTags, Null),
     Obj4(kStore, Null, kRate, Undefined, kShippingPaid, Num(-512),
          kTags, Str(<<" ", "y", " ", ",", "X">>)),                   \* " y ,X"
     Obj2(kStore, Str(<<" ", " ">>), kRate, Num(256)),
     Obj2(kStore, Str(<<>>), kRate, Num(256))}

\* --------------------------------------------------------------------- dates

\* a Date: valid is false for an Invalid Date; t is the local time in
\* minutes since 1970-01-01 00:00 local time
InvalidDate == [valid |-> FALSE, t |-> 0]
DateAt(t) == [valid |-> TRUE, t |-> t]

MinutesPerDay == 1440

\* String.prototype.split(separator)
RECURSIVE SplitOn(_, _)
SplitOn(s, sep) ==
    IF \A j \in 1..Len(s) : s[j] # sep
    THEN <<s>>
    ELSE LET p == CHOOSE j \in 1..Len(s) :
                      s[j] = sep /\ \A m \in 1..(j - 1) : s[m] # sep
         IN  <<SubSeq(s, 1, p - 1)>> \o SplitOn(SubSeq(s, p + 1, Len(s)), sep)

\* parseInt(s, 10): leading white space, a sign, then the digits up to the
\* first other character; NaN without a digit
ParseInt(s) ==
    LET u == TrimStart(s)
        neg == u # <<>> /\ Head(u) = "-"
        w == IF u # <<>> /\ Head(u) \in {"-", "+"} THEN Tail(u) ELSE u
        ds == DigitPrefix(w)
    IN  IF ds = <<>> THEN NaN
        ELSE IF neg THEN -DigitsValue(ds) ELSE DigitsValue(ds)

IsLeapYear(y) == y % 4 = 0 /\ (y % 100 # 0 \/ y % 400 = 0)

\* the number of days from 1970-01-01 to the first day of year y
DayFromYear(y) ==
    365 * (y - 1970) + ((y - 1969) \div 4) - ((y - 1901) \div 100)
        + ((y - 1601) \div 400)

DaysBeforeMonth == <<0, 31, 59, 90, 120, 151, 181, 212, 243, 273, 304, 334>>

DaysInMonth(y, m) ==
    IF m = 2 THEN (IF IsLeapYear(y) THEN 29 ELSE 28)
    ELSE IF m \in {4, 6, 9, 11} THEN 30 ELSE 31

\* MakeDay: the day number of day d of month m (0 is January) of year y;
\* a month or a day out of range carries over
MakeDay(y, m, d) ==
    LET ym == y + (m \div 12)
        mn == m % 12
        leap == IF mn >= 2 /\ IsLeapYear(ym) THEN 1 ELSE 0
    IN  DayFromYear(ym) + DaysBeforeMonth[mn + 1] + leap + d - 1

\* new Date(year, monthIndex, day): local midnight; a year from 0 to 99 is
\* taken in the 1900s; NaN in a field gives an Invalid Date
NewDate(year, monthIndex, day) ==
    IF NaN \in {year, monthIndex, day} THEN InvalidDate
    ELSE LET y == IF year >= 0 /\ year <= 99 THEN 1900 + year ELSE year
         IN  DateAt(MakeDay(y, monthIndex, day) * MinutesPerDay)

AllDigits(s) == s # <<>> /\ \A j \in 1..Len(s) : IsDigit(s[j])

\* s is YYYY-MM-DD with a month and a day that exist
IsIsoDate(s) ==
    /\ Len(s) = 10
    /\ s[5] = "-" /\ s[8] = "-"
    /\ AllDigits(SubSeq(s, 1, 4)) /\ AllDigits(SubSeq(s, 6, 7)) /\ AllDigits(SubSeq(s, 9, 10))
    /\ DigitsValue(SubSeq(s, 6, 7)) \in 1..12
    /\ DigitsValue(SubSeq(s, 9, 10)) \in
           1..DaysInMonth(DigitsValue(SubSeq(s, 1, 4)), DigitsValue(SubSeq(s, 6, 7)))

\* s is HH:mm
IsIsoTime(s) ==
    /\ Len(s) = 5
    /\ s[3] = ":"
    /\ AllDigits(SubSeq(s, 1, 2)) /\ AllDigits(SubSeq(s, 4, 5))
    /\ DigitsValue(SubSeq(s, 1, 2)) \in 0..23
    /\ DigitsValue(SubSeq(s, 4, 5)) \in 0..59

\* the day number written in an ISO date
IsoDay(s) ==
    MakeDay(DigitsValue(SubSeq(s, 1, 4)), DigitsValue(SubSeq(s, 6, 7)) - 1,
            DigitsValue(SubSeq(s, 9, 10)))

\* new Date(string): a date-only ISO form is midnight UTC, which is tz
\* minutes later in local time (tz is the offset east of UTC); a date-time
\* ISO form without offset is local time; a text in neither form with no
\* date in it is an Invalid Date
NewDateFromString(s, tz) ==
    IF IsIsoDate(s) THEN DateAt(IsoDay(s) * MinutesPerDay + tz)
    ELSE IF Len(s) = 16 /\ IsIsoDate(SubSeq(s, 1, 10)) /\ s[11] = "T"
            /\ IsIsoTime(SubSeq(s, 12, 16))
    THEN DateAt(IsoDay(SubSeq(s, 1, 10)) * MinutesPerDay
                + 60 * DigitsValue(SubSeq(s, 12, 13)) + DigitsValue(SubSeq(s, 15, 16)))
    ELSE InvalidDate

\* NaN - 1 is NaN
MinusOne(k) == IF k = NaN THEN NaN ELSE k - 1

\* parseDate of filterDataByDateRange
ParseDate(dateStr, tz) ==
    LET parts == SplitOn(dateStr, "/")
    IN  IF Len(parts) = 3
        THEN NewDate(ParseInt(parts[3]), MinusOne(ParseInt(parts[1])), ParseInt(parts[2]))
        ELSE NewDateFromString(dateStr, tz)

\* setHours(0, 0, 0, 0)
StartOfDay(d) ==
    IF d.valid THEN DateAt((d.t \div MinutesPerDay) * MinutesPerDay) ELSE d

\* setHours(23, 59, 59, 999), to the minute
EndOfDay(d) ==
    IF d.valid THEN DateAt((d.t \div MinutesPerDay) * MinutesPerDay + MinutesPerDay - 1)
    ELSE d

\* a >= b and a <= b on Dates: false when either is an Invalid Date
DateGeq(a, b) == a.valid /\ b.valid /\ a.t >= b.t
DateLeq(a, b) == a.valid /\ b.valid /\ a.t <= b.t

kOrderDate == <<"O", "r", "d", "e", "r", " ", "D", "a", "t", "e">>  \* "Order Date"
kOrderDateNoSpace == <<"O", "r", "d", "e", "r", "D", "a", "t", "e">>  \* "OrderDate"
kDate == <<"D", "a", "t", "e">>  \* "Date"
kShipDate == <<"S", "h", "i", "p", " ", "D", "a", "t", "e">>  \* "Ship Date"
kShipDateNoSpace == <<"S", "h", "i", "p", "D", "a", "t", "e">>  \* "ShipDate"

dateFields == <<kOrderDate, kOrderDateNoSpace, kDate, kShipDate, kShipDateNoSpace>>

\* the callback of data.filter from the j-th date field on: "throw" when a
\* truthy value has no split method, otherwise whether the order is kept
RECURSIVE FilterFrom(_, _, _, _, _)
FilterFrom(order, j, start, adjustedEnd, tz) ==
    IF j > Len(dateFields) THEN "keep"
    ELSE LET v == Get(order, dateFields[j])
         IN  IF ~Truthy(v) THEN FilterFrom(order, j + 1, start, adjustedEnd, tz)
             ELSE IF v.t # "string" THEN "throw"
             ELSE LET orderDate == ParseDate(v.s, tz)
                  IN  IF ~orderDate.valid
                      THEN FilterFrom(order, j + 1, start, adjustedEnd, tz)
                      ELSE IF DateGeq(orderDate, start) /\ DateLeq(orderDate, adjustedEnd)
                      THEN "keep"
                      ELSE "drop"

FilterOrder(order, start, end, tz) ==
    FilterFrom(order, 1, StartOfDay(start), EndOfDay(end), tz)

\* filterDataByDateRange(orders, start, end): thrown when the callback
\* throws on some order, otherwise the orders kept, in their order
FilterDataByDateRange(orders, start, end, tz) ==
    IF \E j \in 1..Len(orders) : FilterOrder(orders[j], start, end, tz) = "throw"
    THEN [thrown |-> TRUE, value |-> <<>>]
    ELSE [thrown |-> FALSE,
          value |-> SelectSeq(orders, LAMBDA o : FilterOrder(o, start, end, tz) = "keep")]

\* ----------------------------------------------------------------------- run

\* the options of a run without any flag and without a date range
NoOptions ==
    [tagOnly |-> FALSE, storeOnly |-> FALSE, save |-> FALSE, csv |-> FALSE,
     filter |-> FALSE]

\* ------------------------------------------------------------------- actions

\* no call of extractNumericValue alone
ExtractIdle == argument = Undefined /\ result = <<>>

\* no call of filterDataByDateRange
FilterIdle ==
    /\ timezone = 0
    /\ startDate = InvalidDate
    /\ endDate = InvalidDate
    /\ filtered = <<>>

\* no run of the command line action
CliIdle ==
    /\ options = NoOptions
    /\ cliPc = "none"
    /\ globalTotal = Undefined
    /\ storeMetrics = EmptyObject
    /\ tagMetrics = EmptyObject
    /\ output = <<>>

\* a process that has loaded the modules and called nothing yet
Loaded ==
    /\ objectProto = {}
    /\ headers = <<>>
    /\ row = <<>>
    /\ data = <<>>
    /\ fn = "none"
    /\ pc = "returned"
    /\ i = 1
    /\ metrics = EmptyObject

Init == Loaded /\ ExtractIdle /\ FilterIdle /\ CliIdle

Building == fn \in {"none", "cleanData"} /\ Len(data) < MaxRecords

\* the caller adds a record of its own to the sequence it will pass
Supply(rec) ==
    /\ Building
    /\ data' = Append(data, rec)
    /\ row' = <<>>
    /\ fn' = "none"
    /\ pc' = "returned"
    /\ UNCHANGED <<objectProto, headers, i, metrics>>

IsPrefix(s, u) == Len(s) <= Len(u) /\ SubSeq(u, 1, Len(s)) = s

\* readCSVFile's 'data' handler: the first row fixes the headers, every row
\* is cleaned and pushed; a later row has the headers' keys, or the first of
\* them when its line is short
ReadRow(r) ==
    /\ Building
    /\ headers = <<>> \/ IsPrefix(Keys(r), headers)
    /\ headers' = IF headers = <<>> THEN Keys(r) ELSE headers
    /\ row' = r
    /\ fn' = "cleanData"
    /\ IF CleanDataThrows(r)
       THEN pc' = "thrown" /\ data' = data
       ELSE pc' = "returned" /\ data' = Append(data, CleanData(r, headers'))
    /\ UNCHANGED <<objectProto, i, metrics>>

NoCallRunning == pc \in {"returned", "thrown"}

CallStoreMetrics ==
    /\ NoCallRunning
    /\ fn' = "calculateStoreMetrics"
    /\ pc' = "loop"
    /\ i' = 1
    /\ metrics' = EmptyObject
    /\ UNCHANGED <<objectProto, headers, row, data>>

\* variant of StoreAccumulate: the default store name is written back into
\* the record
StoreAccumulateDefaulting ==
    /\ fn = "calculateStoreMetrics" /\ pc = "loop" /\ i <= Len(data)
    /\ LET r == StoreIteration(metrics, objectProto, data[i])
       IN  metrics' = r.m /\ objectProto' = r.proto
    /\ data' = [data EXCEPT ![i] = Put(@, kStore, ResolveStore(@))]
    /\ i' = i + 1
    /\ UNCHANGED <<headers, row, fn, pc>>

StoreAccumulate ==
    /\ fn = "calculateStoreMetrics" /\ pc = "loop" /\ i <= Len(data)
    /\ LET r == StoreIteration(metrics, objectProto, data[i])
       IN  metrics' = r.m /\ objectProto' = r.proto
    /\ i' = i + 1
    /\ UNCHANGED <<headers, row, data, fn, pc>>

StoreFinalize ==
    /\ fn = "calculateStoreMetrics" /\ pc = "loop" /\ i > Len(data)
    /\ IF ForInThrows(metrics, objectProto)
       THEN pc' = "thrown" /\ metrics' = EmptyObject
       ELSE /\ pc' = "returned"
            /\ metrics' = [k \in DOMAIN metrics |-> FinalizeStoreEntry(metrics[k])]
    /\ UNCHANGED <<objectProto, headers, row, data, fn, i>>

CallTagMetrics ==
    /\ NoCallRunning
    /\ fn' = "calculateTagMetrics"
    /\ pc' = "loop"
    /\ i' = 1
    /\ metrics' = EmptyObject
    /\ UNCHANGED <<objectProto, headers, row, data>>

TagAccumulate ==
    /\ fn = "calculateTagMetrics" /\ pc = "loop" /\ i <= Len(data)
    /\ IF TagsThrows(data[i])
       THEN pc' = "thrown" /\ metrics' = EmptyObject /\ UNCHANGED <<objectProto, i>>
       ELSE LET r == TagIteration(metrics, objectProto, data[i])
            IN  /\ metrics' = r.m /\ objectProto' = r.proto
                /\ i' = i + 1 /\ pc' = pc
    /\ UNCHANGED <<headers, row, data, fn>>

TagFinalize ==
    /\ fn = "calculateTagMetrics" /\ pc = "loop" /\ i > Len(data)
    /\ IF ForInThrows(metrics, objectProto)
       THEN pc' = "thrown" /\ metrics' = EmptyObject
       ELSE /\ pc' = "returned"
            /\ metrics' = [k \in DOMAIN metrics |-> FinalizeTagEntry(metrics[k])]
    /\ UNCHANGED <<objectProto, headers, row, data, fn, i>>

\* the caller starts over with a new record sequence, in the same process
Reset ==
    /\ NoCallRunning
    /\ fn \in {"calculateStoreMetrics", "calculateTagMetrics"}
    /\ headers' = <<>>
    /\ row' = <<>>
    /\ data' = <<>>
    /\ fn' = "none"
    /\ pc' = "returned"
    /\ i' = 1
    /\ metrics' = EmptyObject
    /\ UNCHANGED objectProto

Next ==
    /\ \/ \E rec \in DirectRecords : Supply(rec)
       \/ \E r \in RawRows : ReadRow(r)
       \/ CallStoreMetrics
       \/ StoreAccumulate
       \/ StoreFinalize
       \/ CallTagMetrics
       \/ TagAccumulate
       \/ TagFinalize
       \/ Reset
    /\ UNCHANGED <<extractVars, filterVars, cliVars>>

Spec == Init /\ [][Next]_vars

\* ------------------------------------------- extractNumericValue on its own

MaxText == 3

TextAlphabet == {"$", "1", "5", ",", ".", "-", "a"}

\* the strings of at most n characters of the alphabet
RECURSIVE Texts(_)
Texts(n) ==
    IF n = 0 THEN {<<>>}
    ELSE Texts(n - 1) \cup {Append(s, c) : s \in Texts(n - 1), c \in TextAlphabet}

\* the values extractNumericValue is called with
ExtractArguments ==
    {Undefined, Null, Bool(TRUE), Bool(FALSE), AnObject}
        \cup {Num(k) : k \in {0, 42 * Unit, -384, 1, NaN, Infinity, -Infinity}}
        \cup {Str(s) : s \in Texts(MaxText)}
        \cup {Str(<<"$", "1", ",", "2", "3", "4", ".", "5", "0">>), Str(<<"-", "$", "0", ".", "1", "2", "5">>), Str(<<" ", "4", "2", " ">>)}

ExtractInit ==
    /\ Loaded /\ FilterIdle /\ CliIdle
    /\ argument \in ExtractArguments
    /\ result = <<>>

\* extractNumericValue(argument), and then extractNumericValue of what that
\* call returned
ExtractCall ==
    /\ Len(result) < 2
    /\ result' = Append(result,
                        ExtractNumericValue(IF result = <<>> THEN argument
                                            ELSE Num(result[Len(result)])))
    /\ UNCHANGED <<objectProto, headers, row, data, fn, pc, i, metrics, argument>>
    /\ UNCHANGED <<filterVars, cliVars>>

ExtractNext == ExtractCall

ExtractSpec == ExtractInit /\ [][ExtractNext]_vars

\* ----------------------------------------- filterDataByDateRange on its own

MaxDated == 2

\* the offsets of local time east of UTC, in minutes, of the machines the
\* program runs on: New York in winter, UTC, Tokyo
Timezones == {-300, 0, 540}

Feb10 == MakeDay(2025, 1, 10) * MinutesPerDay
Feb20 == MakeDay(2025, 1, 20) * MinutesPerDay

\* the start and end dates of the calls: 10 to 20 February 2025 with a start
\* at noon, and the single day 10 February
DateRanges ==
    {<<DateAt(Feb10 + 720), DateAt(Feb20)>>, <<DateAt(Feb10), DateAt(Feb10 + 540)>>}

DateTexts ==
    {<<"0", "2", "/", "0", "9", "/", "2", "0", "2", "5">>, <<"0", "2", "/", "1", "0", "/", "2", "0", "2", "5">>, <<"2", "/", "2", "0", "/", "2", "0", "2", "5", " ", "3", ":", "4", "5", ":", "0", "0", " ", "P", "M">>, <<"0", "2", "/", "2", "1", "/", "2", "0", "2", "5">>,
     <<"0", "2", "/", "1", "0", "/", "2", "5">>, <<"2", "0", "2", "5", "-", "0", "2", "-", "1", "0">>, <<"2", "0", "2", "5", "-", "0", "2", "-", "2", "1">>, <<"2", "0", "2", "5", "-", "0", "2", "-", "2", "0", "T", "1", "5", ":", "3", "0">>,
     <<"2", "0", "2", "5", "-", "0", "2", "-", "0", "9", "T", "2", "3", ":", "5", "9">>, <<"n", "/", "a">>, <<>>}

\* the orders of the calls: one date field with each text or with a number,
\* no date field, and two date fields
DatedRecords ==
    {Obj1(kOrderDate, Str(s)) : s \in DateTexts}
        \cup {Obj1(kOrderDate, Num(45689 * Unit)),
              Obj1(kStore, Str(<<"A">>)),
              Obj2(kOrderDate, Str(<<"n", "/", "a">>), kShipDate, Str(<<"0", "2", "/", "1", "0", "/", "2", "0", "2", "5">>)),
              Obj2(kOrderDate, Str(<<"0", "2", "/", "0", "9", "/", "2", "0", "2", "5">>), kShipDate, Str(<<"0", "2", "/", "1", "0", "/", "2", "0", "2", "5">>)),
              Obj2(kOrderDate, Str(<<"0", "2", "/", "1", "0", "/", "2", "0", "2", "5">>), kShipDate, Str(<<"0", "2", "/", "0", "9", "/", "2", "0", "2", "5">>)),
              Obj2(kOrderDate, Num(45689 * Unit), kShipDate, Str(<<"0", "2", "/", "1", "0", "/", "2", "0", "2", "5">>)),
              Obj2(kOrderDateNoSpace, Str(<<>>), kDate, Str(<<"0", "2", "/", "2", "1", "/", "2", "0", "2", "5">>)),
              Obj2(kDate, Str(<<"n", "/", "a">>), kShipDateNoSpace, Str(<<"0", "2", "/", "1", "0", "/", "2", "0", "2", "5">>))}

RECURSIVE SequencesUpTo(_, _)
SequencesUpTo(S, n) ==
    IF n = 0 THEN {<<>>}
    ELSE SequencesUpTo(S, n - 1)
             \cup {Append(q, x) : q \in SequencesUpTo(S, n - 1), x \in S}

FilterInit ==
    /\ objectProto = {}
    /\ headers = <<>>
    /\ row = <<>>
    /\ data \in SequencesUpTo(DatedRecords, MaxDated)
    /\ fn = "filterDataByDateRange"
    /\ pc = "called"
    /\ i = 1
    /\ metrics = EmptyObject
    /\ ExtractIdle /\ CliIdle
    /\ timezone \in Timezones
    /\ \E range \in DateRanges : startDate = range[1] /\ endDate = range[2]
    /\ filtered = <<>>

\* the call returns the orders kept; startDate has been moved to the start
\* of its day
FilterReturn ==
    LET r == FilterDataByDateRange(data, startDate, endDate, timezone)
    IN  /\ pc = "called"
        /\ ~r.thrown
        /\ pc' = "returned"
        /\ filtered' = r.value
        /\ startDate' = StartOfDay(startDate)
        /\ UNCHANGED <<objectProto, headers, row, data, fn, i, metrics, timezone, endDate>>
        /\ UNCHANGED <<extractVars, cliVars>>

\* the callback throws a TypeError on some order and the call returns nothing
FilterThrow ==
    LET r == FilterDataByDateRange(data, startDate, endDate, timezone)
    IN  /\ pc = "called"
        /\ r.thrown
        /\ pc' = "thrown"
        /\ startDate' = StartOfDay(startDate)
        /\ UNCHANGED <<objectProto, headers, row, data, fn, i, metrics, timezone, endDate,
                       filtered>>
        /\ UNCHANGED <<extractVars, cliVars>>

FilterNext == FilterReturn \/ FilterThrow

FilterSpec == FilterInit /\ [][FilterNext]_vars

\* ------------------------------------------ the action of the command line

\* --tag-only, --store-only, --save, --csv, and whether a date range is given
Options ==
    [tagOnly : BOOLEAN, storeOnly : BOOLEAN, save : BOOLEAN, csv : BOOLEAN,
     filter : BOOLEAN]

DatedRow(store, rate, tags, orderDate) ==
    <<Cell(kStore, store), Cell(kRate, rate), Cell(kTags, tags),
      Cell(kOrderDate, orderDate)>>

\* the rows of the files analysed: none; one tagged order on 10 February;
\* orders in and out of 10 to 20 February; an order in March; a date written
\* as a serial number; a store named __proto__; two tagged orders of two
\* stores
Files ==
    {<<>>,
     <<DatedRow(<<"A">>, <<"5">>, <<"G", "i", "f", "t">>, <<"0", "2", "/", "1", "0", "/", "2", "0", "2", "5">>)>>,
     <<DatedRow(<<"A">>, <<"5">>, <<"G", "i", "f", "t">>, <<"0", "2", "/", "1", "0", "/", "2", "0", "2", "5">>),
       DatedRow(<<"B">>, <<"3">>, <<>>, <<"0", "2", "/", "2", "5", "/", "2", "0", "2", "5">>)>>,
     <<DatedRow(<<"A">>, <<"5">>, <<>>, <<"0", "3", "/", "0", "1", "/", "2", "0", "2", "5">>)>>,
     <<DatedRow(<<"A">>, <<"5">>, <<"G", "i", "f", "t">>, <<"4", "5", "6", "8", "9">>)>>,
     <<DatedRow(kProto, <<"5">>, <<"G", "i", "f", "t">>, <<"0", "2", "/", "1", "0", "/", "2", "0", "2", "5">>)>>,
     <<DatedRow(<<"A">>, <<"5">>, <<"G", "i", "f", "t">>, <<"0", "2", "/", "1", "0", "/", "2", "0", "2", "5">>),
       DatedRow(<<"B">>, <<"3">>, <<"G", "i", "f", "t", ",", "V", "I", "P">>, <<"0", "2", "/", "2", "0", "/", "2", "0", "2", "5">>)>>}

\* the sum of count over Object.keys(storeMetrics)
RECURSIVE SumCounts(_)
SumCounts(m) ==
    IF DOMAIN m = {} THEN 0
    ELSE LET k == CHOOSE k \in DOMAIN m : TRUE
         IN  m[k].count + SumCounts([j \in DOMAIN m \ {k} |-> m[j]])

\* the entry of the output of a call that computes no percentage of all orders
NoTotal == -1

Called(op, total) == [op |-> op, total |-> total]

\* global.totalAllStoresOrders || fallback
TotalOr(fallback) == IF Truthy(globalTotal) THEN globalTotal.n \div Unit ELSE fallback

CliInit ==
    /\ Loaded /\ ExtractIdle
    /\ options \in Options
    /\ cliPc = "start"
    /\ globalTotal = Undefined
    /\ storeMetrics = EmptyObject
    /\ tagMetrics = EmptyObject
    /\ output = <<>>
    /\ timezone \in Timezones
    /\ startDate = IF options.filter THEN DateAt(Feb10) ELSE InvalidDate
    /\ endDate = IF options.filter THEN DateAt(Feb20) ELSE InvalidDate
    /\ filtered = <<>>

\* data = await readCSVFile(fileToAnalyze)
CliRead(file) ==
    /\ cliPc = "start"
    /\ headers' = IF file = <<>> THEN <<>> ELSE Keys(file[1])
    /\ data' = [j \in 1..Len(file) |-> CleanData(file[j], headers')]
    /\ fn' = "readCSVFile"
    /\ pc' = "returned"
    /\ cliPc' = "read"
    /\ UNCHANGED <<objectProto, row, i, metrics, options, globalTotal, storeMetrics,
                   tagMetrics, output>>
    /\ UNCHANGED <<extractVars, filterVars>>

\* if (dateFilter.shouldFilter): the data is filtered; the run exits with 1
\* when the filter throws and when nothing is left
CliFilter ==
    /\ cliPc = "read"
    /\ IF options.filter
       THEN LET r == FilterDataByDateRange(data, startDate, endDate, timezone)
            IN  /\ fn' = "filterDataByDateRange"
                /\ startDate' = StartOfDay(startDate)
                /\ IF r.thrown
                   THEN pc' = "thrown" /\ cliPc' = "exit1" /\ UNCHANGED <<data, filtered>>
                   ELSE /\ pc' = "returned"
                        /\ data' = r.value
                        /\ filtered' = r.value
                        /\ cliPc' = IF r.value = <<>> THEN "exit1" ELSE "filtered"
       ELSE cliPc' = "filtered" /\ UNCHANGED <<fn, pc, data, startDate, filtered>>
    /\ UNCHANGED <<objectProto, headers, row, i, metrics, timezone, endDate, options,
                   globalTotal, storeMetrics, tagMetrics, output>>
    /\ UNCHANGED extractVars

\* variant of CliCalculate: the run goes on when the store map is empty
CliCalculateUnchecked ==
    LET sacc == StoreLoop([m |-> EmptyObject, proto |-> objectProto], data)
        s == StoreCall(data, objectProto)
        tacc == TagRecords([m |-> EmptyObject, proto |-> sacc.proto], data)
        tm == TagCall(data, sacc.proto)
    IN  /\ cliPc = "filtered"
        /\ IF s.thrown
           THEN /\ fn' = "calculateStoreMetrics" /\ pc' = "thrown" /\ cliPc' = "exit1"
                /\ objectProto' = sacc.proto
                /\ UNCHANGED <<storeMetrics, tagMetrics>>
           ELSE /\ fn' = "calculateTagMetrics"
                /\ objectProto' = tacc.proto
                /\ storeMetrics' = s.map
                /\ IF tm.thrown
                   THEN pc' = "thrown" /\ cliPc' = "exit1" /\ UNCHANGED tagMetrics
                   ELSE /\ pc' = "returned"
                        /\ tagMetrics' = tm.map
                        /\ cliPc' = "calculated"
        /\ UNCHANGED <<headers, row, data, i, metrics, options, globalTotal, output>>
        /\ UNCHANGED <<extractVars, filterVars>>

\* calculateStoreMetrics(data), calculateTagMetrics(data), and the exit with
\* 1 when either throws and when the store map has no key
CliCalculate ==
    LET sacc == StoreLoop([m |-> EmptyObject, proto |-> objectProto], data)
        s == StoreCall(data, objectProto)
        tacc == TagRecords([m |-> EmptyObject, proto |-> sacc.proto], data)
        tm == TagCall(data, sacc.proto)
    IN  /\ cliPc = "filtered"
        /\ IF s.thrown
           THEN /\ fn' = "calculateStoreMetrics" /\ pc' = "thrown" /\ cliPc' = "exit1"
                /\ objectProto' = sacc.proto
                /\ UNCHANGED <<storeMetrics, tagMetrics>>
           ELSE /\ fn' = "calculateTagMetrics"
                /\ objectProto' = tacc.proto
                /\ storeMetrics' = s.map
                /\ IF tm.thrown
                   THEN pc' = "thrown" /\ cliPc' = "exit1" /\ UNCHANGED tagMetrics
                   ELSE /\ pc' = "returned"
                        /\ tagMetrics' = tm.map
                        /\ cliPc' = IF DOMAIN s.map = {} THEN "exit1" ELSE "calculated"
        /\ UNCHANGED <<headers, row, data, i, metrics, options, globalTotal, output>>
        /\ UNCHANGED <<extractVars, filterVars>>

\* if (!options.tagOnly): the counts are summed into
\* global.totalAllStoresOrders and the store metrics are displayed
CliDisplayStores ==
    /\ cliPc = "calculated"
    /\ cliPc' = "stores"
    /\ IF ~options.tagOnly
       THEN /\ globalTotal' = Num(SumCounts(storeMetrics) * Unit)
            /\ output' = Append(output, Called("displayStoreMetrics", NoTotal))
       ELSE UNCHANGED <<globalTotal, output>>
    /\ UNCHANGED <<objectProto, headers, row, data, fn, pc, i, metrics, options,
                   storeMetrics, tagMetrics>>
    /\ UNCHANGED <<extractVars, filterVars>>

\* if (!options.storeOnly) displayTagMetrics(tagMetrics): with tags, the
\* percentages of all orders are over global.totalAllStoresOrders || 1781
CliDisplayTags ==
    /\ cliPc = "stores"
    /\ cliPc' = "tags"
    /\ IF ~options.storeOnly
       THEN output' = Append(output,
                Called("displayTagMetrics",
                       IF DOMAIN tagMetrics = {} THEN NoTotal ELSE TotalOr(1781)))
       ELSE UNCHANGED output
    /\ UNCHANGED <<objectProto, headers, row, data, fn, pc, i, metrics, options,
                   globalTotal, storeMetrics, tagMetrics>>
    /\ UNCHANGED <<extractVars, filterVars>>

\* if (options.save): saveReportToCSV takes global.totalAllStoresOrders or
\* else the sum of the counts, saveReportToExcel the sum of the counts
CliSave ==
    /\ cliPc = "tags"
    /\ cliPc' = "done"
    /\ IF options.save
       THEN output' = Append(output,
                IF options.csv
                THEN Called("saveReportToCSV",
                            IF DOMAIN tagMetrics = {} THEN NoTotal
                            ELSE TotalOr(SumCounts(storeMetrics)))
                ELSE Called("saveReportToExcel",
                            IF DOMAIN tagMetrics = {} THEN NoTotal
                            ELSE SumCounts(storeMetrics)))
       ELSE UNCHANGED output
    /\ UNCHANGED <<objectProto, headers, row, data, fn, pc, i, metrics, options,
                   globalTotal, storeMetrics, tagMetrics>>
    /\ UNCHANGED <<extractVars, filterVars>>

CliNext ==
    \/ \E file \in Files : CliRead(file)
    \/ CliFilter
    \/ CliCalculate
    \/ CliDisplayStores
    \/ CliDisplayTags
    \/ CliSave

CliSpec == CliInit /\ [][CliNext]_vars

\* ------------------------------------------------------------------ properties

StoreReturned == fn = "calculateStoreMetrics" /\ pc = "returned"
TagReturned == fn = "calculateTagMetrics" /\ pc = "returned"

\* the loop of calculateStoreMetrics is about to handle data[i]
StoreHandles == fn = "calculateStoreMetrics" /\ pc = "loop" /\ i <= Len(data)
\* the loop of calculateTagMetrics is about to handle data[i]
TagHandles == fn = "calculateTagMetrics" /\ pc = "loop" /\ i <= Len(data)
\* the second loop of calculateStoreMetrics runs and the call returns
StoreFinishes ==
    fn = "calculateStoreMetrics" /\ pc = "loop" /\ i > Len(data) /\ pc' = "returned"

ResolvedKey(order) == ToPropertyKey(ResolveStore(order))

\* the records of data whose resolved store is s
RecordsOfStore(s) == {j \in 1..Len(data) : ResolvedKey(data[j]) = s}

RECURSIVE SumRates(_)
SumRates(js) ==
    IF js = {} THEN 0
    ELSE LET j == CHOOSE j \in js : TRUE IN RateOf(data[j]) + SumRates(js \ {j})

\* field f of the entry of key k in map m, 0 when there is no entry
Field(m, k, f) == IF k \in DOMAIN m THEN m[k][f] ELSE 0

\* C1: the counts of the returned store map add up to the number of input
\* records, whatever the store names are.
C1_CountsSumToRecords == StoreReturned => SumCounts(metrics) = Len(data)

\* C2: the returned store map has exactly one entry per resolved store name
\* of the input, whose count is the number of records of that store and whose
\* totalRate is the 2-decimal rounding of the sum of their rates.
C2_OneEntryPerStore ==
    StoreReturned =>
        /\ DOMAIN metrics = {ResolvedKey(data[j]) : j \in 1..Len(data)}
        /\ \A s \in DOMAIN metrics :
              /\ metrics[s].count = Cardinality(RecordsOfStore(s))
              /\ metrics[s].totalRate = ToFixed2(SumRates(RecordsOfStore(s)), 1)

\* C3: a record adds the numeric value of its "Shipping Paid" field to
\* totalShippingPaid and of its "Order Total" field to totalOrderValue,
\* whatever other fields it carries.
C3_AmountsFromCanonicalFields ==
    [][StoreHandles /\ ResolvedKey(data[i]) \in DOMAIN metrics' =>
        LET k == ResolvedKey(data[i])
        IN  /\ metrics'[k].totalShippingPaid
                   = Field(metrics, k, "totalShippingPaid")
                       + ExtractNumericValue(Get(data[i], kShippingPaid))
            /\ metrics'[k].totalOrderValue
                   = Field(metrics, k, "totalOrderValue")
                       + ExtractNumericValue(Get(data[i], kOrderTotal))]_vars

MarginOf(p, d) ==
    LET q == (20000 * Abs(p) + Abs(d)) \div (2 * Abs(d))
    IN  IF (p < 0) = (d < 0) THEN q ELSE -q

\* C5 as stated: whenever the accumulated totalShippingPaid is not 0,
\* positive or negative, shippingProfitMargin is
\* shippingProfit / totalShippingPaid * 100 rounded to 2 decimals, and
\* likewise netRevenueMargin for totalOrderValue.
C5_MarginForNonZeroTotal ==
    [][StoreFinishes =>
        \A s \in DOMAIN metrics :
            LET e == metrics[s]
            IN  /\ e.totalShippingPaid # 0 =>
                       metrics'[s].shippingProfitMargin
                           = MarginOf(e.totalShippingPaid - e.totalRate, e.totalShippingPaid)
                /\ e.totalOrderValue # 0 =>
                       metrics'[s].netRevenueMargin
                           = MarginOf(e.totalOrderValue - e.totalRate, e.totalOrderValue)]_vars

\* C5 amended: the margin is the rounded percentage when the accumulated
\* denominator is positive, and 0 when it is zero or negative.
C5_MarginForPositiveTotal ==
    [][StoreFinishes =>
        \A s \in DOMAIN metrics :
            LET e == metrics[s]
            IN  /\ metrics'[s].shippingProfitMargin
                       = IF e.totalShippingPaid > 0
                         THEN MarginOf(e.totalShippingPaid - e.totalRate, e.totalShippingPaid)
                         ELSE 0
                /\ metrics'[s].netRevenueMargin
                       = IF e.totalOrderValue > 0
                         THEN MarginOf(e.totalOrderValue - e.totalRate, e.totalOrderValue)
                         ELSE 0]_vars

\* one returned entry has a non-zero margin on a positive total of shipping
\* paid, another a margin of 0 on a negative one
C5_Witness ==
    /\ StoreReturned
    /\ \E s \in DOMAIN metrics :
          metrics[s].totalShippingPaid > 0 /\ metrics[s].shippingProfitMargin # 0
    /\ \E s \in DOMAIN metrics :
          metrics[s].totalShippingPaid < 0 /\ metrics[s].shippingProfitMargin = 0

\* C6 as stated: the published fields of every returned entry satisfy
\* shippingProfit = totalShippingPaid - totalRate and
\* netRevenue = totalOrderValue - totalRate.
C6_PublishedDifferences ==
    StoreReturned =>
        \A s \in DOMAIN metrics :
            /\ metrics[s].shippingProfit
                   = metrics[s].totalShippingPaid - metrics[s].totalRate
            /\ metrics[s].netRevenue = metrics[s].totalOrderValue - metrics[s].totalRate

\* the hundredths nearest to a amount counted in 1/Unit, halves away from 0
Hundredths(a) ==
    LET q == (200 * Abs(a) + Unit) \div (2 * Unit) IN IF a < 0 THEN -q ELSE q

\* C6 amended: shippingProfit and netRevenue are the 2-decimal roundings of
\* the differences of the totals accumulated before rounding, and are within
\* 0.01 of the differences of the published totals.
C6_RoundedDifferences ==
    [][StoreFinishes =>
        \A s \in DOMAIN metrics :
            LET e == metrics[s]
                f == metrics'[s]
            IN  /\ f.shippingProfit = Hundredths(e.totalShippingPaid - e.totalRate)
                /\ f.netRevenue = Hundredths(e.totalOrderValue - e.totalRate)
                /\ Abs(f.shippingProfit - (f.totalShippingPaid - f.totalRate)) <= 1
                /\ Abs(f.netRevenue - (f.totalOrderValue - f.totalRate)) <= 1]_vars

\* a returned entry whose shippingProfit is not the difference of its
\* published totals
C6_Witness ==
    /\ StoreReturned
    /\ \E s \in DOMAIN metrics :
          metrics[s].shippingProfit # metrics[s].totalShippingPaid - metrics[s].totalRate

\* how often label occurs among the pieces of a Tags string, split on ','
\* and trimmed
Occurrences(label, tagString) ==
    LET pieces == Split(tagString)
    IN  Cardinality({j \in 1..Len(pieces) : Trim(pieces[j]) = label})

\* C7: a record whose Tags string holds a label k times adds k to the
\* label's count and k times the record's rate to its totalRate.
C7_TagFanOut ==
    [][TagHandles /\ Get(data[i], kTags).t = "string" =>
        LET tagString == Get(data[i], kTags).s
            pieces == Split(tagString)
        IN  \A j \in 1..Len(pieces) :
                LET label == Trim(pieces[j])
                    k == Occurrences(label, tagString)
                IN  label # <<>> =>
                        /\ label \in DOMAIN metrics'
                        /\ metrics'[label].count = Field(metrics, label, "count") + k
                        /\ metrics'[label].totalRate
                               = Field(metrics, label, "totalRate") + k * RateOf(data[i])]_vars

\* Tags is absent, null, or a string that trims to the empty string
TagsBlank(order) ==
    LET v == Get(order, kTags)
    IN  v.t \in {"undefined", "null"} \/ (v.t = "string" /\ Trim(v.s) = <<>>)

\* C8: a record whose Tags is absent, null or trims to the empty string
\* leaves the tag map as it was.
C8_BlankTagsChangeNothing ==
    [][TagHandles /\ TagsBlank(data[i]) => metrics' = metrics /\ pc' = "loop"]_vars

\* the loop has just passed a record with blank Tags, with entries in the map
C8_Witness ==
    /\ fn = "calculateTagMetrics" /\ pc = "loop" /\ i > 1
    /\ TagsBlank(data[i - 1])
    /\ kTags \in DOMAIN data[i - 1]
    /\ DOMAIN metrics # {}

\* C9: calculateStoreMetrics and calculateTagMetrics never throw, also on the
\* records cleanData produces.
C9_AggregatorsNeverThrow ==
    fn \in {"calculateStoreMetrics", "calculateTagMetrics"} => pc # "thrown"

\* C10: cleanData never fails on a row of string keys and string values: it
\* returns a record that holds the keys of the row, trimmed, and a number
\* in every numeric-looking field of the row (0 when the cell holds none).
C10_CleanDataReturns ==
    fn = "cleanData" =>
        /\ pc = "returned"
        /\ data # <<>>
        /\ \A j \in 1..Len(row) :
              LET k == Trim(row[j].key)
              IN  /\ k # kProto => k \in DOMAIN data[Len(data)]
                  /\ IsLikelyNumeric(k, row[j].value) =>
                         /\ data[Len(data)][k].t = "number"
                         /\ IsFinite(data[Len(data)][k].n)
                         /\ StripNonNumeric(row[j].value.s) = <<>> =>
                                data[Len(data)][k].n = 0

\* cleanData returned a record for a row whose numeric cells hold no number:
\* they are 0
C10_Witness ==
    /\ fn = "cleanData" /\ pc = "returned" /\ data # <<>>
    /\ \E j \in 1..Len(row) : row[j].key = kOrderTotal /\ row[j].value = Str(<<"N", "/", "A">>)
    /\ Get(data[Len(data)], kRate) = Num(0)
    /\ Get(data[Len(data)], kOrderTotal) = Num(0)

\* cleanData has just returned Cleaned, the record made of row
CleanDataReturned == fn = "cleanData" /\ pc = "returned" /\ data # <<>>
Cleaned == data[Len(data)]

NumericCanonicalFields == {kRate, kOrderTotal, kShippingPaid}

\* the canonical name and the aliases of a canonical field
VariationsOf(field) ==
    LET j == CHOOSE j \in 1..Len(FieldMappings) : FieldMappings[j].field = field
    IN  FieldMappings[j].variations

\* no column of the row is named by the field's canonical name or an alias,
\* in any letter case, trimmed or not
NoColumnFor(field) ==
    \A j \in 1..Len(row) : ~MatchesIgnoringCase(Trim(row[j].key), VariationsOf(field))

RowKeys == {Trim(row[j].key) : j \in 1..Len(row)}

\* the places in a list of variations of those that are keys of the row
PresentVariations(variations) == {a \in 1..Len(variations) : variations[a] \in RowKeys}

Min(S) == CHOOSE x \in S : \A y \in S : x <= y

\* C12: when the row has no column of the canonical name and two or more of
\* the field's aliases, the canonical field gets the value of the alias that
\* comes first in the field's list, whatever the values are.
C12_FirstListedAliasWins ==
    CleanDataReturned =>
        \A m \in 1..Len(FieldMappings) :
            LET fm == FieldMappings[m]
                present == PresentVariations(fm.variations)
            IN  fm.field \notin RowKeys /\ Cardinality(present) >= 2 =>
                    Get(Cleaned, fm.field) = Cleaned[fm.variations[Min(present)]]

\* the cell of the row whose trimmed key is k
CellOf(k) == row[CHOOSE j \in 1..Len(row) : Trim(row[j].key) = k].value

CanonicalFields == {FieldMappings[m].field : m \in 1..Len(FieldMappings)}

\* C13: a canonical field that is a column of the row keeps that column's
\* coerced value, 0 and the empty string included, and is never given the
\* value of an alias column.
C13_CanonicalColumnKept ==
    CleanDataReturned =>
        \A f \in CanonicalFields \cap RowKeys : Get(Cleaned, f) = Coerce(f, CellOf(f))

\* the columns of the row whose header, trimmed, names the field in some
\* letter case
ColumnsFor(field) ==
    {j \in 1..Len(row) : MatchesIgnoringCase(Trim(row[j].key), VariationsOf(field))}

\* C14: when no column has the exact canonical name or an exact alias of a
\* field, and some header equals one of them ignoring letter case, trimmed
\* or not, the canonical field gets the coerced value of such a column.
C14_CaseInsensitiveFallback ==
    CleanDataReturned =>
        \A f \in CanonicalFields :
            PresentVariations(VariationsOf(f)) = {} /\ ColumnsFor(f) # {} =>
                \E j \in ColumnsFor(f) : Get(Cleaned, f) = Cleaned[Trim(row[j].key)]

\* the value the conversion rule gives a cell of text v under the trimmed
\* key k: a number when k holds a keyword in any letter case or v reads
\* optional '$', digits, optional decimal part; the text itself otherwise
Converted(k, v) ==
    LET keyword == \E w \in 1..Len(NumericFields) :
                       Includes(ToLowerCase(k), NumericFields[w])
        p == ParseFloat(StripNonNumeric(v))
    IN  IF keyword \/ LooksLikeCurrency(v)
        THEN Num(IF p.nan THEN 0 ELSE p.n)
        ELSE Str(v)

\* C15: the returned record holds, under the trimmed key of every column,
\* a number exactly when the key holds a keyword or the text looks like an
\* amount: the parse of the text stripped to digits, '.' and '-', or 0 when
\* there is none; every other column keeps its text.
C15_ConvertedExactlyWhenNumeric ==
    CleanDataReturned =>
        \A j \in 1..Len(row) :
            LET k == Trim(row[j].key)
            IN  k # kProto =>
                    /\ k \in DOMAIN Cleaned
                    /\ Cleaned[k] = Converted(k, row[j].value.s)

StoreBlank(order) ==
    LET v == Get(order, kStore)
    IN  v.t \in {"undefined", "null"} \/ (v.t = "string" /\ Trim(v.s) = <<>>)

\* C17: a record whose Store is missing, null, empty or only whitespace
\* adds 1 to the count of the entry "Unknown" and changes no other entry.
C17_BlankStoreIsUnknown ==
    [][StoreHandles /\ StoreBlank(data[i]) =>
        /\ kUnknown \in DOMAIN metrics'
        /\ metrics'[kUnknown].count = Field(metrics, kUnknown, "count") + 1
        /\ \A s \in DOMAIN metrics' \ {kUnknown} :
              s \in DOMAIN metrics /\ metrics'[s] = metrics[s]]_vars

\* a call of calculateStoreMetrics or calculateTagMetrics has ended
CallEnded == fn \in {"calculateStoreMetrics", "calculateTagMetrics"} /\ pc # "loop"

\* C18: a call on the empty record sequence returns the empty map, and no
\* entry of a returned map has count 0.
C18_EmptyMapAndNoZeroCount ==
    CallEnded =>
        /\ data = <<>> => pc = "returned" /\ metrics = EmptyObject
        /\ pc = "returned" => \A s \in DOMAIN metrics : metrics[s].count # 0

\* the outcome of the call that has ended
Outcome == [thrown |-> pc = "thrown", map |-> metrics]

\* data rearranged by the permutation p of its indices
Permuted(p) == [j \in 1..Len(data) |-> data[p[j]]]

\* C19: the call that has ended on data gives, on every permutation of
\* data, the same entries with the same counts and totals (and throws on
\* all of them if it threw).
C19_PermutationInvariant ==
    CallEnded =>
        \A p \in Permutations(1..Len(data)) :
            Outcome = IF fn = "calculateStoreMetrics"
                      THEN StoreCall(Permuted(p), objectProto)
                      ELSE TagCall(Permuted(p), objectProto)

\* calculateStoreMetrics returned one entry made of two records with
\* different rates
C19_Witness ==
    /\ StoreReturned
    /\ Len(data) = 2
    /\ ResolvedKey(data[1]) = ResolvedKey(data[2])
    /\ RateOf(data[1]) # RateOf(data[2])
    /\ DOMAIN metrics = {ResolvedKey(data[1])}
    /\ metrics[ResolvedKey(data[1])].count = 2

\* C20: whatever calls were made before, the call that has ended on data
\* gives what a first call on data gives, one made in a process where no
\* aggregator call has run yet.
C20_SameAsFirstCall ==
    CallEnded =>
        Outcome = IF fn = "calculateStoreMetrics"
                  THEN StoreCall(data, {})
                  ELSE TagCall(data, {})

\* the place in the field's list of the first variation that the trimmed
\* header of column j equals ignoring letter case
VariationMatched(field, j) ==
    Min({a \in 1..Len(VariationsOf(field)) :
            ToLowerCase(Trim(row[j].key)) = ToLowerCase(VariationsOf(field)[a])})

\* C30: when no column has an exact name of a field and several columns
\* match aliases of it ignoring case, the field gets the value of the column
\* whose alias comes first in the field's list, whatever the column order.
C30_FallbackFollowsAliasOrder ==
    CleanDataReturned =>
        \A f \in CanonicalFields :
            PresentVariations(VariationsOf(f)) = {} /\ Cardinality(ColumnsFor(f)) >= 2 =>
                \E j \in ColumnsFor(f) :
                    /\ \A h \in ColumnsFor(f) : VariationMatched(f, j) <= VariationMatched(f, h)
                    /\ Get(Cleaned, f) = Cleaned[Trim(row[j].key)]

\* how often the label occurs, letter for letter, among the trimmed pieces
\* of the Tags of the records from j on that are not skipped
RECURSIVE LabelCount(_, _)
LabelCount(label, j) ==
    IF j > Len(data) THEN 0
    ELSE (IF TagsSkipped(data[j]) THEN 0 ELSE Occurrences(label, Get(data[j], kTags).s))
             + LabelCount(label, j + 1)

\* C29: every key of the returned tag map is a non-empty string without
\* surrounding whitespace, and its count is the number of pieces that equal
\* it after trimming, letter case included: pieces that differ only in
\* surrounding whitespace share the entry, pieces that differ in letter case
\* do not.
C29_TagKeysTrimmedCaseSensitive ==
    TagReturned =>
        \A k \in DOMAIN metrics :
            /\ k # <<>>
            /\ Trim(k) = k
            /\ metrics[k].count = LabelCount(k, 1)

\* calculateTagMetrics returned separate entries Y and y, and an entry X
\* made of the pieces "X", " X" and "X"
C29_Witness ==
    /\ TagReturned
    /\ {<<"X">>, <<"Y">>, <<"y">>} \subseteq DOMAIN metrics
    /\ metrics[<<"X">>].count = 3
    /\ metrics[<<"Y">>].count = 1
    /\ metrics[<<"y">>].count = 1

\* the second loop of calculateTagMetrics runs and the call returns
TagFinishes ==
    fn = "calculateTagMetrics" /\ pc = "loop" /\ i > Len(data) /\ pc' = "returned"

\* h hundredths is the exact value num / den (den > 0, in hundredths) rounded
\* to the nearest integer, a value half-way going away from zero
IsRounded(h, num, den) ==
    /\ 2 * Abs(h * den - num) <= den
    /\ 2 * Abs(h * den - num) = den => Abs(h) * den > Abs(num)

\* C23: every amount and percentage of every returned store and tag entry
\* is a whole number of hundredths, the one nearest to the exact value
\* accumulated (total, total / count, difference of totals, 100 * profit /
\* total), half-way values rounded away from zero.
C23_RoundedHalfAwayFromZero ==
    [][/\ StoreFinishes =>
            \A s \in DOMAIN metrics :
                LET e == metrics[s]
                    f == metrics'[s]
                IN  /\ IsRounded(f.totalRate, 100 * e.totalRate, Unit)
                    /\ IsRounded(f.totalOrderValue, 100 * e.totalOrderValue, Unit)
                    /\ IsRounded(f.totalShippingPaid, 100 * e.totalShippingPaid, Unit)
                    /\ IsRounded(f.averageRate, 100 * e.totalRate, Unit * e.count)
                    /\ IsRounded(f.averageOrderValue, 100 * e.totalOrderValue, Unit * e.count)
                    /\ IsRounded(f.averageShippingPaid, 100 * e.totalShippingPaid,
                                 Unit * e.count)
                    /\ IsRounded(f.shippingProfit,
                                 100 * (e.totalShippingPaid - e.totalRate), Unit)
                    /\ IsRounded(f.netRevenue, 100 * (e.totalOrderValue - e.totalRate), Unit)
                    /\ e.totalShippingPaid > 0 =>
                           IsRounded(f.shippingProfitMargin,
                                     10000 * (e.totalShippingPaid - e.totalRate),
                                     e.totalShippingPaid)
                    /\ e.totalOrderValue > 0 =>
                           IsRounded(f.netRevenueMargin,
                                     10000 * (e.totalOrderValue - e.totalRate),
                                     e.totalOrderValue)
       /\ TagFinishes =>
            \A k \in DOMAIN metrics :
                /\ IsRounded(metrics'[k].totalRate, 100 * metrics[k].totalRate, Unit)
                /\ IsRounded(metrics'[k].averageRate, 100 * metrics[k].totalRate,
                             Unit * metrics[k].count)]_vars

\* a returned store entry shows 0.125 as 0.13 and -0.125 as -0.13
C23_Witness ==
    /\ StoreReturned
    /\ \E s \in DOMAIN metrics :
          /\ RecordsOfStore(s) # {}
          /\ \A j \in RecordsOfStore(s) :
                ShippingPaidOf(data[j]) = 32 /\ RateOf(data[j]) = 64
          /\ Cardinality(RecordsOfStore(s)) = 1
          /\ metrics[s].totalShippingPaid = 13
          /\ metrics[s].shippingProfit = -13

\* C21: no step of calculateStoreMetrics or calculateTagMetrics, from the
\* call to its end, changes the record sequence: its length, its order and
\* the keys and values of every record stay as they were.
C21_InputUnchanged ==
    [][fn' \in {"calculateStoreMetrics", "calculateTagMetrics"} => data' = data]_vars

\* both aggregators have run to their end on two records, one without
\* Store and one whose Tags still has its spaces, and the tag map is not
\* empty
C21_Witness ==
    /\ TagReturned
    /\ Len(data) = 2
    /\ kStore \notin DOMAIN data[1]
    /\ Get(data[2], kStore) = Null
    /\ Get(data[2], kTags) = Str(<<" ", "y", " ", ",", "X">>)
    /\ DOMAIN metrics # {}

\* a === b on numbers: NaN equals nothing
StrictlyEqual(a, b) == a = b /\ a # NaN

\* the text without '$', ',' and spaces
WithoutSymbols(s) == SelectSeq(s, LAMBDA c : c \notin {"$", ",", " "})

\* an optional '-', digits, and optionally '.' and digits
IsDecimal(s) ==
    LET u == IF s # <<>> /\ Head(s) = "-" THEN Tail(s) ELSE s
        ip == DigitPrefix(u)
        r == SubSeq(u, Len(ip) + 1, Len(u))
    IN  /\ ip # <<>>
        /\ r = <<>> \/ (Head(r) = "." /\ Len(r) > 1 /\ DigitPrefix(Tail(r)) = Tail(r))

\* the amount a decimal denotes, in 1/Unit
DecimalValue(s) ==
    LET neg == Head(s) = "-"
        u == IF neg THEN Tail(s) ELSE s
        ip == DigitPrefix(u)
        fp == IF Len(u) > Len(ip) THEN SubSeq(u, Len(ip) + 2, Len(u)) ELSE <<>>
        mag == DigitsValue(ip) * Unit + (DigitsValue(fp) * Unit) \div Pow10(Len(fp))
    IN  IF neg THEN -mag ELSE mag

\* an amount written with currency symbols and thousands separators
IsCurrencyText(s) ==
    /\ \A j \in 1..Len(s) : IsDigit(s[j]) \/ s[j] \in {"$", ",", " ", ".", "-"}
    /\ IsDecimal(WithoutSymbols(s))

\* what C22 says of the first call, but for the finite result
ExtractsByType ==
    result # <<>> =>
        /\ argument.t \notin {"number", "string"} => result[1] = 0
        /\ argument = Str(<<>>) => result[1] = 0
        /\ argument.t = "number" => result[1] = argument.n
        /\ argument.t = "string" /\ IsCurrencyText(argument.s) =>
               result[1] = DecimalValue(WithoutSymbols(argument.s))

\* C22 as stated: extractNumericValue gives 0 for undefined, null, '' and
\* values of other types, a number unchanged, for a string the amount left
\* without currency symbols and separators; applied to its result it gives
\* a result equal to it; and the result is finite for every argument.
C22_ExtractIdempotentFinite ==
    /\ ExtractsByType
    /\ result # <<>> => IsFinite(result[1])
    /\ Len(result) = 2 => StrictlyEqual(result[2], result[1])


\* a call of filterDataByDateRange has ended
FilterEnded == fn = "filterDataByDateRange" /\ pc \in {"returned", "thrown"}

\* the order is in the array the call returned
Kept(order) == pc = "returned" /\ \E j \in 1..Len(filtered) : filtered[j] = order

\* the j-th date field of the order holds a text that is a valid date
HoldsDate(order, j) ==
    LET v == Get(order, dateFields[j])
    IN  v.t = "string" /\ ParseDate(v.s, timezone).valid

HasDate(order) == \E j \in 1..Len(dateFields) : HoldsDate(order, j)

\* the text of the first date field of the order that holds a valid date
FirstDateText(order) ==
    LET j == CHOOSE j \in 1..Len(dateFields) :
                 HoldsDate(order, j) /\ \A m \in 1..(j - 1) : ~HoldsDate(order, m)
    IN  order[dateFields[j]].s

\* the calendar day a date text names: the year, month and day written in it
WrittenDay(s) ==
    IF Len(SplitOn(s, "/")) = 3 THEN ParseDate(s, 0).t \div MinutesPerDay
    ELSE IsoDay(SubSeq(s, 1, 10))

DayOf(d) == d.t \div MinutesPerDay

\* C24: a record with a parseable date is kept exactly when the calendar day
\* of that date is no earlier than the start day and no later than the end
\* day.
C24_KeptWhenDayInRange ==
    FilterEnded =>
        \A j \in 1..Len(data) :
            HasDate(data[j]) =>
                (Kept(data[j]) <=>
                    /\ DayOf(startDate) <= WrittenDay(FirstDateText(data[j]))
                    /\ WrittenDay(FirstDateText(data[j])) <= DayOf(endDate))

\* C25: every record without a parseable date in any of the five date
\* fields is kept.
C25_UndatedKept ==
    FilterEnded => \A j \in 1..Len(data) : ~HasDate(data[j]) => Kept(data[j])

\* C26: each record is decided by the first date field, in the listed order,
\* that holds a valid date; fields before it that hold no valid date are
\* passed over and fields after it do not count.
C26_FirstValidFieldDecides ==
    FilterEnded =>
        \A j \in 1..Len(data) :
            HasDate(data[j]) =>
                LET d == ParseDate(FirstDateText(data[j]), timezone)
                IN  Kept(data[j]) <=>
                        /\ DateGeq(d, StartOfDay(startDate))
                        /\ DateLeq(d, EndOfDay(endDate))


\* the run is past the date filter, which left no record
EmptyAfterFilter ==
    /\ options.filter
    /\ data = <<>>
    /\ \/ cliPc \in {"filtered", "calculated", "stores", "tags", "done"}
       \/ cliPc = "exit1" /\ fn = "filterDataByDateRange" /\ pc = "returned"

\* the run is past the calculation, which gave a store map without keys
EmptyStoreMap ==
    /\ DOMAIN storeMetrics = {}
    /\ \/ cliPc \in {"calculated", "stores", "tags", "done"}
       \/ cliPc = "exit1" /\ fn = "calculateTagMetrics" /\ pc = "returned"

\* C27: when no record is left after date filtering, or the store map is
\* empty, the run has exited with 1 without a display or a save, and after
\* an exit with 1 nothing is displayed or saved and the run stays exited.
C27_FailureExitBeforeOutput ==
    /\ [](EmptyAfterFilter \/ EmptyStoreMap => cliPc = "exit1" /\ output = <<>>)
    /\ [][cliPc = "exit1" => cliPc' = "exit1" /\ output' = output]_vars

\* a run given a date range and a file with an order has exited with 1 at
\* the filter, which left nothing, although a save was asked for
C27_Witness ==
    /\ cliPc = "exit1"
    /\ options.filter /\ options.save
    /\ headers # <<>>
    /\ fn = "filterDataByDateRange" /\ pc = "returned"
    /\ data = <<>>
    /\ output = <<>>

\* C28: every percentage of all orders, on the console and in a saved
\* report, is over the sum of count of the store metrics of the run.
C28_DenominatorIsStoreTotal ==
    \A j \in 1..Len(output) :
        output[j].total # NoTotal => output[j].total = SumCounts(storeMetrics)

====
